---- MODULE Spec2Model ----
(***************************************************************************)
(* A model of the slide-assembly engine of presentation_mcp: the slide     *)
(* configuration classes and their factory, the configuration loader, the  *)
(* Dimension Calculator, and PresentationBuilder.build with its error      *)
(* accumulator.  Python objects are records, Optional[...] values are      *)
(* NoneVal, lists are sequences, raised exceptions are the field "exc" of  *)
(* an operator's result.  Lengths are in hundredths of a centimetre.       *)
(***************************************************************************)
EXTENDS Integers, Sequences, FiniteSets, TLC

VARIABLES
    pc,         \* where the caller of build is: idle, loop, returned, raised
    n,          \* len(config.slides) of the build in progress
    i,          \* the enumerate(config.slides, 1) counter of the loop
    cfgs,       \* the slide configs the loop has read so far, in order
    errors,     \* PresentationBuilder._errors
    prs,        \* the slides created in the presentation object
    raisedExc,  \* the exception build raised to its caller, or "none"
    template,   \* the template file of the build in progress: ok, missing, corrupt
    recorded,   \* history: the entries appended since the last call of build
    log,        \* history: per slide read, the exception raised, the last step
                \* reached and the entries appended
    earlier,    \* history: an earlier call of build on this builder recorded entries
    dims,       \* one call of calculate_smart_dimensions
    fac,        \* one call of SlideConfigFactory.create / ConfigLoader.load
    reg,        \* a LayoutRegistry: its _layouts and the last call made on it
    media,      \* a MediaPlacer: its errors and the last call of place_audio
    cli,        \* one run of cmd_generate
    mcp         \* one call of the MCP tool generate_presentation

\* The variables of the builder and of a build.
builderVars == <<pc, n, i, cfgs, errors, prs, raisedExc, template, recorded, log, earlier>>

vars == <<builderVars, dims, fac, reg, media, cli, mcp>>

\* Python's None, and the marker of an attribute that the object's class
\* does not define (reading it raises AttributeError).
NoneVal == "None"
NoAttr == "<no attribute>"

\* ---------------------------------------------------------------- bounds
MaxSlides == 2
MaxImages == 2
MaxPixels == 3
MaxBox == 3
MaxErrors == 2

\* ------------------------------------------------------ program constants
PLACEHOLDER_TITLE_IDX == 10
PLACEHOLDER_SLIDE_NUM_IDX == 11
PLACEHOLDER_TITLE_LAYOUT_TITLE_IDX == 10
PLACEHOLDER_TITLE_LAYOUT_SLIDE_NUM_IDX == 12
PLACEHOLDER_TITLE_LAYOUT_SUBTITLE_IDX == 13
DEFAULT_LAYOUT_NAME == "VideoLayout"
REQUIRED_LAYOUT_NAME == "TitleLayout"

\* ------------------------------------------------------------ environment
\* The template: its named layouts and the placeholder indices of each.
\* ShortsLayout is the layout of the shorts template, which has no
\* placeholders at all.
TemplateLayouts ==
    [VideoLayout |-> {10, 11}, TitleLayout |-> {10, 12, 13}, ShortsLayout |-> {}]

\* The files that exist below the configuration directory, and the pixel
\* size Pillow reads from the image files among them.
Files ==
    {"a.png", "tall.png", "b.webp", "bad.webp", "corrupt.png", "huge.png", "notes.md", "a.mp3"}

\* bad.webp exists but Pillow cannot convert it; corrupt.png exists but neither
\* Pillow nor python-pptx can read it; huge.png is an image python-pptx
\* reads, on which Image.open of Pillow raises.
ConvertFails(path) == path = "bad.webp"
Readable(path) == path \notin {"bad.webp", "corrupt.png", "huge.png"}
PptxAccepts(path) == path # "corrupt.png"
PillowInstalled == TRUE

ImageSize(path) ==
    IF path = "tall.png" THEN [w |-> 1080, h |-> 1920] ELSE [w |-> 1920, h |-> 1080]

Exists(path) == path \in Files

EndsWith(s, suffix) ==
    \/ suffix = ".md" /\ s \in {"notes.md", "missing.md"}
    \/ suffix = ".webp" /\ s \in {"b.webp", "bad.webp", "missing.webp"}

\* ------------------------------------------------------- layout registry
Placement(left, top, max_width, max_height) ==
    [left |-> left, top |-> top, max_width |-> max_width, max_height |-> max_height]

LayoutBlueprint(name, required_images, placements) ==
    [name |-> name, required_images |-> required_images, placements |-> placements]

\* The registry after register_default_layouts: name -> blueprint.
DefaultLayouts ==
    [single_wide |-> LayoutBlueprint("single_wide", 1,
        <<Placement(1020, 420, 2000, 1000)>>),
     single_tall |-> LayoutBlueprint("single_tall", 1,
        <<Placement(1046, 296, 1120, 1520)>>),
     two_stack |-> LayoutBlueprint("two_stack", 2,
        <<Placement(1016, 347, 1840, 391), Placement(1016, 1100, 1807, 458)>>),
     two_tall_row |-> LayoutBlueprint("two_tall_row", 2,
        <<Placement(1020, 240, 1050, 1450), Placement(2189, 240, 1050, 1450)>>),
     three_stack |-> LayoutBlueprint("three_stack", 3,
        <<Placement(1016, 300, 1840, 400), Placement(1016, 750, 1840, 400),
          Placement(1016, 1200, 1840, 400)>>),
     title_youtube |-> LayoutBlueprint("title_youtube", 1,
        <<Placement(1441, 0, 1946, 1905)>>),
     single_tall_shorts |-> LayoutBlueprint("single_tall_shorts", 1,
        <<Placement(150, 300, 1605, 2987)>>),
     two_stack_shorts |-> LayoutBlueprint("two_stack_shorts", 2,
        <<Placement(150, 300, 1605, 1443), Placement(150, 1843, 1605, 1443)>>),
     three_stack_shorts |-> LayoutBlueprint("three_stack_shorts", 3,
        <<Placement(150, 300, 1605, 942), Placement(150, 1322, 1605, 942),
          Placement(150, 2345, 1605, 942)>>)]

\* --------------------------------------------------- Dimension Calculator
\* An Optional[float] is the empty set (None) or the singleton of its value.
NoDimensions == [width |-> {}, height |-> {}]

\* calculate_smart_dimensions once the image has been opened: img_ratio >
\* box_ratio is compared by cross-multiplication (all four numbers are
\* non-negative and the two divisors are non-zero on that path).
SmartDimensions_FixBoth(img_width, img_height, max_width, max_height) ==
    [width |-> {max_width}, height |-> {max_height}]

\* A comparison with its two branches exchanged.
SmartDimensions_Exchanged(img_width, img_height, max_width, max_height) ==
    IF img_height = 0 \/ max_height = 0 THEN NoDimensions
    ELSE IF img_width * max_height > max_width * img_height
         THEN [width |-> {}, height |-> {max_height}]
         ELSE [width |-> {max_width}, height |-> {}]

\* A comparison that gives the tie of the two ratios to the width.
SmartDimensions_TieToWidth(img_width, img_height, max_width, max_height) ==
    IF img_height = 0 \/ max_height = 0 THEN NoDimensions
    ELSE IF img_width * max_height >= max_width * img_height
         THEN [width |-> {max_width}, height |-> {}]
         ELSE [width |-> {}, height |-> {max_height}]

SmartDimensions(img_width, img_height, max_width, max_height) ==
    IF img_height = 0 \/ max_height = 0
    THEN NoDimensions
    ELSE IF img_width * max_height > max_width * img_height
         THEN [width |-> {max_width}, height |-> {}]
         ELSE [width |-> {}, height |-> {max_height}]

\* calculate_smart_dimensions: pillow says whether Pillow was imported,
\* readable whether Image.open succeeds on the path.
calculate_smart_dimensions(pillow, readable, img_width, img_height, max_width, max_height) ==
    IF ~pillow THEN NoDimensions
    ELSE IF ~readable THEN NoDimensions
    ELSE SmartDimensions(img_width, img_height, max_width, max_height)

\* ---------------------------------------------------------- error entries
\* One string of an error list, kept as its parts.  number is 0 and title
\* and path are NoneVal where the message does not name them.
Entry(kind, number, title, path, reason) ==
    [kind |-> kind, number |-> number, title |-> title, path |-> path, reason |-> reason]

\* "Ошибка при создании слайда {i} ('{title}'): {e}"
SlideError(number, title, reason) == Entry("slide", number, title, NoneVal, reason)
\* "Изображение не найдено: {path}"
ImageNotFound(path) == Entry("image_not_found", 0, NoneVal, path, "FileNotFoundError")
\* "Ошибка конвертации WebP {path}: {e}"
WebpError(path) == Entry("webp_conversion", 0, NoneVal, path, "Exception")
\* "Ошибка добавления изображения {path}: {e}"
ImageAddError(path) == Entry("image_add", 0, NoneVal, path, "Exception")
\* "Аудиофайл не найден: {path}"
AudioNotFound(path) == Entry("audio_not_found", 0, NoneVal, path, "FileNotFoundError")

\* ------------------------------------------------------- resource loader
\* A loader that gives empty notes for a file it does not find.
load_notes_EmptyOnMissing(source) ==
    IF EndsWith(source, ".md") /\ Exists(source)
    THEN [exc |-> "none", text |-> <<"file", source>>]
    ELSE IF EndsWith(source, ".md")
    THEN [exc |-> "none", text |-> <<"inline", "">>]
    ELSE [exc |-> "none", text |-> <<"inline", source>>]

\* ResourceLoader.load_notes: a source ending in .md is read from its file,
\* anything else is inline text.
load_notes(source) ==
    IF EndsWith(source, ".md")
    THEN IF Exists(source)
         THEN [exc |-> "none", text |-> <<"file", source>>]
         ELSE [exc |-> "FileNotFoundError", text |-> <<>>]
    ELSE [exc |-> "none", text |-> <<"inline", source>>]

\* clean_markdown_for_notes: empty text stays empty, other text is stripped
\* of its markup.
clean_markdown_for_notes(text) ==
    IF text = <<"inline", "">> THEN <<"clean">> ELSE <<"clean">> \o text

\* ------------------------------------------- PresentationBuilder._place_*
Picture(path, placement, d) ==
    [path |-> path, left |-> placement.left, top |-> placement.top,
     width |-> d.width, height |-> d.height]

\* The size add_picture gives a picture of img_width x img_height pixels
\* when one dimension is fixed and the other is None: the other one follows
\* the image's own ratio.  Each length is a fraction num/den, den > 0.
Rendered(result, img_width, img_height) ==
    IF result.width # {}
    THEN LET w == CHOOSE v \in result.width : TRUE
         IN [width |-> [num |-> w, den |-> 1],
             height |-> [num |-> w * img_height, den |-> img_width]]
    ELSE LET h == CHOOSE v \in result.height : TRUE
         IN [width |-> [num |-> h * img_width, den |-> img_height],
             height |-> [num |-> h, den |-> 1]]

\* A loop body that passes over a WebP file it cannot convert without an
\* entry.
PlaceOneImage_WebpSilent(path, placement) ==
    IF ~Exists(path)
    THEN [pictures |-> <<>>, errs |-> <<ImageNotFound(path)>>]
    ELSE IF EndsWith(path, ".webp") /\ ConvertFails(path)
    THEN [pictures |-> <<>>, errs |-> <<>>]
    ELSE IF PptxAccepts(path)
    THEN [pictures |-> <<Picture(path, placement,
                                 calculate_smart_dimensions(PillowInstalled, Readable(path),
                                     ImageSize(path).w, ImageSize(path).h,
                                     placement.max_width, placement.max_height))>>,
          errs |-> <<>>]
    ELSE [pictures |-> <<>>, errs |-> <<ImageAddError(path)>>]

\* The body of the loop of _place_images for one image paired with a slot:
\* the picture inserted (a sequence of none or one) and the entries appended.
PlaceOneImage(path, placement) ==
    IF ~Exists(path)
    THEN [pictures |-> <<>>, errs |-> <<ImageNotFound(path)>>]
    ELSE IF EndsWith(path, ".webp") /\ ConvertFails(path)
    THEN [pictures |-> <<>>, errs |-> <<WebpError(path)>>]
    ELSE LET d == calculate_smart_dimensions(PillowInstalled, Readable(path),
                      ImageSize(path).w, ImageSize(path).h,
                      placement.max_width, placement.max_height)
         IN IF PptxAccepts(path)
            THEN [pictures |-> <<Picture(path, placement, d)>>, errs |-> <<>>]
            ELSE [pictures |-> <<>>, errs |-> <<ImageAddError(path)>>]

\* A loop that goes round the slots again for the surplus images.
RECURSIVE PlaceFrom_Wrapping(_, _, _)
PlaceFrom_Wrapping(images, placements, k) ==
    IF k > Len(images) \/ placements = <<>>
    THEN [pictures |-> <<>>, errs |-> <<>>]
    ELSE LET one == PlaceOneImage(images[k], placements[((k - 1) % Len(placements)) + 1])
             rest == PlaceFrom_Wrapping(images, placements, k + 1)
         IN [pictures |-> one.pictures \o rest.pictures, errs |-> one.errs \o rest.errs]

\* The loop of _place_images from image k on: it stops at the first image
\* that has no slot.
RECURSIVE PlaceFrom(_, _, _)
PlaceFrom(images, placements, k) ==
    IF k > Len(images) \/ k > Len(placements)
    THEN [pictures |-> <<>>, errs |-> <<>>]
    ELSE LET one == PlaceOneImage(images[k], placements[k])
             rest == PlaceFrom(images, placements, k + 1)
         IN [pictures |-> one.pictures \o rest.pictures, errs |-> one.errs \o rest.errs]

\* A placement that appends an entry of its own when the number of images
\* is not the number the blueprint requires.
Builder_place_images_CountEntry(layouts, cfg) ==
    IF cfg.images = <<>>
    THEN [pictures |-> <<>>, errs |-> <<>>, exc |-> "none"]
    ELSE LET layout_type == IF cfg.slide_type = "title_youtube"
                            THEN "title_youtube" ELSE cfg.layout_type
         IN IF layout_type \notin DOMAIN layouts
            THEN [pictures |-> <<>>, errs |-> <<>>, exc |-> "KeyError"]
            ELSE LET placed == PlaceFrom(cfg.images, layouts[layout_type].placements, 1)
                     count == IF Len(cfg.images) # layouts[layout_type].required_images
                              THEN <<Entry("image_count", 0, NoneVal, NoneVal, "mismatch")>>
                              ELSE <<>>
                 IN [pictures |-> placed.pictures, errs |-> count \o placed.errs,
                     exc |-> "none"]

\* A placement that passes over a blueprint that is not registered.
Builder_place_images_SkipUnregistered(layouts, cfg) ==
    IF cfg.images = <<>>
       \/ (cfg.slide_type # "title_youtube" /\ cfg.layout_type \notin DOMAIN layouts)
    THEN [pictures |-> <<>>, errs |-> <<>>, exc |-> "none"]
    ELSE LET layout_type == IF cfg.slide_type = "title_youtube"
                            THEN "title_youtube" ELSE cfg.layout_type
             placed == PlaceFrom(cfg.images, layouts[layout_type].placements, 1)
         IN [pictures |-> placed.pictures, errs |-> placed.errs, exc |-> "none"]

\* PresentationBuilder._place_images on a registry `layouts`.
Builder_place_images(layouts, cfg) ==
    IF cfg.images = <<>>
    THEN [pictures |-> <<>>, errs |-> <<>>, exc |-> "none"]
    ELSE LET layout_type == IF cfg.slide_type = "title_youtube"
                            THEN "title_youtube" ELSE cfg.layout_type
         IN IF layout_type \notin DOMAIN layouts
            THEN [pictures |-> <<>>, errs |-> <<>>, exc |-> "KeyError"]
            ELSE LET placed == PlaceFrom(cfg.images, layouts[layout_type].placements, 1)
                 IN [pictures |-> placed.pictures, errs |-> placed.errs, exc |-> "none"]

\* ------------------------------------------------------------- ImagePlacer
\* ImagePlacer._place_single_image(slide, img_path_str, placement): the
\* picture added (a sequence of none or one), the entries appended to
\* self.errors and the value returned.
ImagePlacer_place_single_image(path, placement) ==
    IF ~Exists(path)
    THEN [pictures |-> <<>>, errs |-> <<ImageNotFound(path)>>, returned |-> FALSE]
    ELSE IF EndsWith(path, ".webp") /\ ConvertFails(path)
    THEN [pictures |-> <<>>, errs |-> <<WebpError(path)>>, returned |-> FALSE]
    ELSE LET d == calculate_smart_dimensions(PillowInstalled, Readable(path),
                      ImageSize(path).w, ImageSize(path).h,
                      placement.max_width, placement.max_height)
         IN IF PptxAccepts(path)
            THEN [pictures |-> <<Picture(path, placement, d)>>, errs |-> <<>>,
                  returned |-> TRUE]
            ELSE [pictures |-> <<>>, errs |-> <<ImageAddError(path)>>, returned |-> FALSE]

\* The loop of ImagePlacer.place_images from image k on, with its count of
\* the images placed.
RECURSIVE ImagePlacer_PlaceFrom(_, _, _)
ImagePlacer_PlaceFrom(images, placements, k) ==
    IF k > Len(images) \/ k > Len(placements)
    THEN [pictures |-> <<>>, errs |-> <<>>, success_count |-> 0]
    ELSE LET one == ImagePlacer_place_single_image(images[k], placements[k])
             rest == ImagePlacer_PlaceFrom(images, placements, k + 1)
         IN [pictures |-> one.pictures \o rest.pictures, errs |-> one.errs \o rest.errs,
             success_count |-> (IF one.returned THEN 1 ELSE 0) + rest.success_count]

\* ImagePlacer.place_images(slide, cfg) on a registry `layouts`.
ImagePlacer_place_images(layouts, cfg) ==
    IF cfg.images = <<>>
    THEN [pictures |-> <<>>, errs |-> <<>>, exc |-> "none", returned |-> FALSE]
    ELSE LET layout_type == IF cfg.slide_type = "title_youtube"
                            THEN "title_youtube" ELSE cfg.layout_type
         IN IF layout_type \notin DOMAIN layouts
            THEN [pictures |-> <<>>, errs |-> <<>>, exc |-> "KeyError", returned |-> FALSE]
            ELSE LET placed == ImagePlacer_PlaceFrom(cfg.images,
                                                     layouts[layout_type].placements, 1)
                 IN [pictures |-> placed.pictures, errs |-> placed.errs, exc |-> "none",
                     returned |-> placed.success_count > 0]

\* PresentationBuilder._place_audio: the media shapes added and the entries.
Builder_place_audio(audio) ==
    IF Exists(audio)
    THEN [media |-> <<audio>>, errs |-> <<>>]
    ELSE [media |-> <<>>, errs |-> <<AudioNotFound(audio)>>]

\* Python truth of an Optional[str].
Truthy(v) == v \notin {NoneVal, ""}

\* ------------------------------------------- PresentationBuilder._add_slide
\* A slide just created from a layout: nothing written yet.  ordinal is the
\* text of the number placeholder, 0 while it is unwritten.
NewSlide(layout, number) ==
    [number |-> number, layout |-> layout, title |-> NoneVal, subtitle |-> NoneVal,
     ordinal |-> 0, notes |-> <<>>, pictures |-> <<>>, media |-> <<>>]

\* A title step that passes over a missing placeholder.
TitleStep_Tolerant(placeholders, idx_title) == "none"

\* Step 1 of _add_slide: slide.shapes.placeholders[idx_title] raises KeyError
\* when the layout has no such placeholder, and the except clause raises it
\* again.
TitleStep(placeholders, idx_title) ==
    IF idx_title \in placeholders THEN "none" ELSE "KeyError"

\* _add_slide(prs, layout, cfg, number): the slide it leaves in the
\* presentation (a sequence of none or one), the entries it appends to
\* _errors and the exception it raises.  step is the last step it reached.
Builder_add_slide(layouts, layout, cfg, number) ==
    IF cfg.audio = NoAttr
    THEN \* the debug message of the first lines evaluates cfg.audio
         [slide |-> <<>>, errs |-> <<>>, exc |-> "AttributeError", step |-> "enter"]
    ELSE
    LET is_title_layout == cfg.slide_type = "title_youtube"
        idx_title == IF is_title_layout THEN PLACEHOLDER_TITLE_LAYOUT_TITLE_IDX
                     ELSE PLACEHOLDER_TITLE_IDX
        idx_slide_num == IF is_title_layout THEN PLACEHOLDER_TITLE_LAYOUT_SLIDE_NUM_IDX
                         ELSE PLACEHOLDER_SLIDE_NUM_IDX
        placeholders == TemplateLayouts[layout]
        s0 == NewSlide(layout, number)
    IN
    IF TitleStep(placeholders, idx_title) # "none"
    THEN [slide |-> <<s0>>, errs |-> <<>>, exc |-> TitleStep(placeholders, idx_title),
          step |-> "title"]
    ELSE
    LET s1 == [s0 EXCEPT !.title = cfg.title]
        s2 == IF is_title_layout /\ PLACEHOLDER_TITLE_LAYOUT_SUBTITLE_IDX \in placeholders
              THEN [s1 EXCEPT !.subtitle = cfg.subtitle] ELSE s1
        s3 == IF idx_slide_num \in placeholders
              THEN [s2 EXCEPT !.ordinal = number] ELSE s2
        notes == load_notes(cfg.notes_source)
    IN
    IF notes.exc # "none"
    THEN [slide |-> <<s3>>, errs |-> <<>>, exc |-> notes.exc, step |-> "notes"]
    ELSE
    LET s4 == [s3 EXCEPT !.notes = clean_markdown_for_notes(notes.text)]
        img == Builder_place_images(layouts, cfg)
    IN
    IF img.exc # "none"
    THEN [slide |-> <<s4>>, errs |-> img.errs, exc |-> img.exc, step |-> "images"]
    ELSE
    LET s5 == [s4 EXCEPT !.pictures = img.pictures]
        aud == IF Truthy(cfg.audio) THEN Builder_place_audio(cfg.audio)
               ELSE [media |-> <<>>, errs |-> <<>>]
    IN [slide |-> <<[s5 EXCEPT !.media = aud.media]>>, errs |-> img.errs \o aud.errs,
        exc |-> "none", step |-> IF Truthy(cfg.audio) THEN "audio" ELSE "images"]

\* _find_layout: whether the template has a layout of that name.
find_layout(layout_name) == layout_name \in DOMAIN TemplateLayouts

\* The name of the layout of slide_cfg: its own, else the configuration's.
CurrentLayoutName(slide_cfg) ==
    IF Truthy(slide_cfg.layout_name) THEN slide_cfg.layout_name ELSE DEFAULT_LAYOUT_NAME

\* The body of the try statement of build's loop for slide i.
TrySlide(layouts, slide_cfg, number) ==
    IF ~find_layout(CurrentLayoutName(slide_cfg))
    THEN [slide |-> <<>>, errs |-> <<>>, exc |-> "ValueError", step |-> "layout"]
    ELSE Builder_add_slide(layouts, CurrentLayoutName(slide_cfg), slide_cfg, number)

\* A loop that catches ValueError alone.
Caught_ValueErrorOnly(exc) == exc = "ValueError"

\* "except Exception": the exceptions the except clause of the loop catches.
Caught(exc) == exc \in {"ValueError", "KeyError", "AttributeError", "FileNotFoundError"}

\* The except clause of the loop: the entry appended for a caught exception.
CatchSlide(number, slide_cfg, exc) ==
    IF Caught(exc) THEN <<SlideError(number, slide_cfg.title, exc)>> ELSE <<>>

\* A loop that numbers a slide by the count of the slides created so far.
LoopBody_Renumbering(layouts, slide_cfg, number) ==
    LET r == TrySlide(layouts, slide_cfg, Len(prs) + 1)
    IN [slide |-> r.slide, errs |-> r.errs \o CatchSlide(number, slide_cfg, r.exc),
        exc |-> r.exc, step |-> r.step,
        propagated |-> IF Caught(r.exc) THEN "none" ELSE r.exc]

\* One iteration of the loop of build: what it appends and creates, and the
\* exception that leaves the loop ("none" if none does).
LoopBody(layouts, slide_cfg, number) ==
    LET r == TrySlide(layouts, slide_cfg, number)
    IN [slide |-> r.slide, errs |-> r.errs \o CatchSlide(number, slide_cfg, r.exc),
        exc |-> r.exc, step |-> r.step,
        propagated |-> IF Caught(r.exc) THEN "none" ELSE r.exc]

\* -------------------------------------------------- inputs of the builder
\* A slide configuration object.  subtitle is NoAttr on a content slide.
\* audio is NoAttr on the instances of ContentSlideConfig and
\* YouTubeTitleSlideConfig, whose classes define no such field; the other
\* values are objects that carry the attribute (a registered subclass).
CleanContent(audio) ==
    [slide_type |-> "content", title |-> "A", layout_name |-> NoneVal,
     layout_type |-> "two_stack", notes_source |-> "inline", images |-> <<"a.png", "a.png">>,
     subtitle |-> NoAttr, audio |-> audio]

CleanTitle(audio) ==
    [slide_type |-> "title_youtube", title |-> "A", layout_name |-> REQUIRED_LAYOUT_NAME,
     layout_type |-> "title_youtube", notes_source |-> "inline", images |-> <<"a.png">>,
     subtitle |-> "S", audio |-> audio]

BuilderImagePaths == {"a.png", "missing.png"}

ImageLists == UNION {[1..k -> BuilderImagePaths] : k \in 0..MaxImages}

\* The clean slide and the slides that differ from it in one field.
ContentVariants(base) ==
    {base, [base EXCEPT !.title = "B"]}
    \cup {[base EXCEPT !.layout_name = x] : x \in {"NoSuchLayout", "ShortsLayout"}}
    \cup {[base EXCEPT !.notes_source = x] : x \in {"missing.md", "notes.md"}}
    \cup {[base EXCEPT !.layout_type = x] : x \in {"single_wide", "unregistered"}}
    \cup {[base EXCEPT !.images = x] : x \in ImageLists}
    \cup {[base EXCEPT !.images = x] :
             x \in {<<"huge.png", "a.png">>, <<"bad.webp", "b.webp">>,
                    <<"corrupt.png", "tall.png">>}}

TitleVariants(base) ==
    {base, [base EXCEPT !.notes_source = "missing.md"],
     [base EXCEPT !.images = <<"missing.png">>]}

SlideConfigs ==
    UNION {ContentVariants(CleanContent(a)) \cup TitleVariants(CleanTitle(a)) :
              a \in {NoAttr, NoneVal}}
    \cup {CleanContent("a.mp3"), CleanContent("missing.mp3"), CleanTitle("a.mp3"),
          [CleanContent("a.mp3") EXCEPT !.notes_source = "missing.md"]}

\* ------------------------------------------------ PresentationBuilder.build
\* Presentation(str(template_path)): what the library call can raise.  The
\* source does not fix the exception raised for a path that does not exist:
\* python-pptx raises its own PackageNotFoundError ("Package not found at
\* ..."), which is no FileNotFoundError; a FileNotFoundError is what the
\* except clause of build expects.
Presentation(tpl) ==
    CASE tpl = "ok" -> {"none"}
      [] tpl = "missing" -> {"FileNotFoundError", "PackageNotFoundError"}
      [] OTHER -> {"BadZipFile"}

\* The try statement of build around the library call: nothing raised for
\* a template that loads, FileNotFoundError passed on, any other exception
\* wrapped in ValueError.
LoadTemplate(raised) ==
    CASE raised = "none" -> "none"
      [] raised = "FileNotFoundError" -> "FileNotFoundError"
      [] OTHER -> "ValueError"

\* A build that keeps the list of the build before it.
ResetErrors_Keep(errs) == errs

\* self._errors = [] at the start of build.
ResetErrors(errs) == <<>>

IdleDims ==
    [phase |-> "idle", pillow |-> TRUE, readable |-> TRUE, img_width |-> 0, img_height |-> 0,
     max_width |-> 0, max_height |-> 0, result |-> NoDimensions]
IdleFac ==
    [phase |-> "idle", file |-> "ok", data |-> <<>>, exc |-> "none", names |-> {},
     slides |-> <<>>]

\* --------------------------------------------------------- LayoutRegistry
\* _layouts is a dict: the blueprints in the order of their registration,
\* no two of one name.
NamesOf(layouts) == [k \in DOMAIN layouts |-> layouts[k].name]

Registered(layouts, name) == \E k \in DOMAIN layouts : layouts[k].name = name

\* A register that replaces the blueprint of the same name.
LayoutRegistry_register_Replacing(layouts, blueprint) ==
    IF Registered(layouts, blueprint.name)
    THEN [exc |-> "none",
          layouts |-> [k \in DOMAIN layouts |->
                          IF layouts[k].name = blueprint.name THEN blueprint ELSE layouts[k]]]
    ELSE [exc |-> "none", layouts |-> Append(layouts, blueprint)]

\* LayoutRegistry.register(blueprint).
LayoutRegistry_register(layouts, blueprint) ==
    IF Registered(layouts, blueprint.name)
    THEN [exc |-> "ValueError", layouts |-> layouts]
    ELSE [exc |-> "none", layouts |-> Append(layouts, blueprint)]

\* LayoutRegistry.get(name): the blueprint (a sequence of none or one), or
\* KeyError with the registered names in its message.
LayoutRegistry_get(layouts, name) ==
    IF ~Registered(layouts, name)
    THEN [exc |-> "KeyError", names |-> NamesOf(layouts), found |-> <<>>]
    ELSE [exc |-> "none", names |-> <<>>,
          found |-> <<layouts[CHOOSE k \in DOMAIN layouts : layouts[k].name = name]>>]

\* LayoutRegistry.exists(name).
LayoutRegistry_exists(layouts, name) == Registered(layouts, name)

\* LayoutRegistry.list_all().
LayoutRegistry_list_all(layouts) == NamesOf(layouts)

\* An unregister that fails on an unknown name after it has dropped the
\* oldest blueprint.
LayoutRegistry_unregister_DropsOldest(layouts, name) ==
    IF ~Registered(layouts, name)
    THEN [exc |-> "KeyError", layouts |-> IF layouts = <<>> THEN layouts ELSE Tail(layouts)]
    ELSE [exc |-> "none",
          layouts |-> SelectSeq(layouts, LAMBDA b : b.name # name)]

\* LayoutRegistry.unregister(name).
LayoutRegistry_unregister(layouts, name) ==
    IF ~Registered(layouts, name)
    THEN [exc |-> "KeyError", layouts |-> layouts]
    ELSE [exc |-> "none",
          layouts |-> SelectSeq(layouts, LAMBDA b : b.name # name)]

\* LayoutRegistry.__init__, with no call made yet.  before is the history
\* of _layouts at the start of the last call.
IdleReg ==
    [layouts |-> <<>>, before |-> <<>>, op |-> "init", name |-> NoneVal, given |-> <<>>,
     exc |-> "none", found |-> <<>>, flag |-> FALSE, names |-> <<>>]

\* ------------------------------------------------------------ MediaPlacer
\* The timing of a slide: no p:timing element, or one with its p:video
\* elements in document order.  Of a p:video: the spid of its p:spTgt,
\* whether its p:cMediaNode has a p:cTn, the p:cTn a p:stCondLst and that a
\* p:cond, and the delay of the p:cond.
NoTiming == [present |-> FALSE, videos |-> <<>>]

Video(spid, cTn, stCondLst, cond) ==
    [spid |-> spid, cTn |-> cTn, stCondLst |-> stCondLst, cond |-> cond,
     delay |-> "indefinite"]

Patchable(video, shape_id) ==
    video.spid = shape_id /\ video.cTn /\ video.stCondLst /\ video.cond

\* A placer that gives up without a word when the slide has no p:timing.
enable_autoplay_Silent(timing, shape_id, oxml_raises) ==
    IF oxml_raises
    THEN [timing |-> timing, errs |-> <<Entry("autoplay", 0, NoneVal, NoneVal, "Exception")>>]
    ELSE IF ~timing.present
    THEN [timing |-> timing, errs |-> <<>>]
    ELSE IF \E k \in DOMAIN timing.videos : Patchable(timing.videos[k], shape_id)
    THEN LET first == CHOOSE k \in DOMAIN timing.videos :
                         /\ Patchable(timing.videos[k], shape_id)
                         /\ \A j \in 1..(k - 1) : ~Patchable(timing.videos[j], shape_id)
         IN [timing |-> [timing EXCEPT !.videos[first].delay = "0"], errs |-> <<>>]
    ELSE [timing |-> timing,
          errs |-> <<Entry("no_target", shape_id, NoneVal, NoneVal, "not found")>>]

\* MediaPlacer._enable_autoplay(slide, shape): the timing it leaves and the
\* entries it appends.  oxml_raises: an exception arises inside its try.
enable_autoplay(timing, shape_id, oxml_raises) ==
    IF oxml_raises
    THEN [timing |-> timing, errs |-> <<Entry("autoplay", 0, NoneVal, NoneVal, "Exception")>>]
    ELSE IF ~timing.present
    THEN [timing |-> timing,
          errs |-> <<Entry("no_timing", 0, NoneVal, NoneVal, "not found")>>]
    ELSE IF \E k \in DOMAIN timing.videos : Patchable(timing.videos[k], shape_id)
    THEN LET first == CHOOSE k \in DOMAIN timing.videos :
                         /\ Patchable(timing.videos[k], shape_id)
                         /\ \A j \in 1..(k - 1) : ~Patchable(timing.videos[j], shape_id)
         IN [timing |-> [timing EXCEPT !.videos[first].delay = "0"], errs |-> <<>>]
    ELSE [timing |-> timing,
          errs |-> <<Entry("no_target", shape_id, NoneVal, NoneVal, "not found")>>]

\* MediaPlacer.place_audio(slide, audio_path_str, autoplay) on a slide with
\* the shapes `shapes`.  add_movie either raises or adds a shape and leaves
\* the slide with the timing `timing`.
place_audio(shapes, audio, autoplay, movie_raises, timing, oxml_raises) ==
    IF ~Exists(audio)
    THEN [shapes |-> shapes, timing |-> NoTiming, errs |-> <<AudioNotFound(audio)>>,
          returned |-> FALSE, exc |-> "none"]
    ELSE IF movie_raises
    THEN [shapes |-> shapes, timing |-> NoTiming,
          errs |-> <<Entry("audio_add", 0, NoneVal, audio, "Exception")>>,
          returned |-> FALSE, exc |-> "none"]
    ELSE LET shape_id == Len(shapes) + 1
             movie == [shape_id |-> shape_id, media |-> audio, mime_type |-> "video/mp4",
                       left |-> 0, top |-> -1000, width |-> 100, height |-> 100]
             auto == IF autoplay THEN enable_autoplay(timing, shape_id, oxml_raises)
                     ELSE [timing |-> timing, errs |-> <<>>]
         IN [shapes |-> Append(shapes, movie), timing |-> auto.timing, errs |-> auto.errs,
             returned |-> TRUE, exc |-> "none"]

\* MediaPlacer.__init__, with no call made yet.
IdleMedia ==
    [phase |-> "idle", errors |-> <<>>, before |-> 0, audio |-> NoneVal, autoplay |-> FALSE,
     given |-> NoTiming, shapes |-> <<>>, timing |-> NoTiming, returned |-> FALSE,
     exc |-> "none"]

\* No run of cmd_generate made yet.
IdleCli ==
    [phase |-> "idle", file |-> "ok", data |-> <<>>, tpl |-> "ok", save_raises |-> FALSE,
     code |-> 0, saved |-> FALSE, errors |-> <<>>, created |-> <<>>]

\* No call of generate_presentation made yet.  reported is the number of
\* the "slides created" line of the message, 0 in a message without it.
IdleMcp ==
    [phase |-> "idle", file |-> "ok", data |-> <<>>, tpl |-> "ok", save_raises |-> FALSE,
     message |-> "none", reported |-> 0, saved |-> FALSE, errors |-> <<>>, created |-> <<>>]

Init ==
    /\ pc = "idle"
    /\ n = 0
    /\ i = 0
    /\ cfgs = <<>>
    /\ errors = <<>>
    /\ prs = <<>>
    /\ raisedExc = "none"
    /\ template = "ok"
    /\ recorded = <<>>
    /\ log = <<>>
    /\ earlier = FALSE
    /\ dims = IdleDims
    /\ fac = IdleFac
    /\ reg = IdleReg
    /\ media = IdleMedia
    /\ cli = IdleCli
    /\ mcp = IdleMcp

\* build is called (again) with a configuration of count slides: the reset
\* of the error list and the load of the template.
BuildStart(tpl, raised, count) ==
    /\ pc \in {"idle", "returned", "raised"}
    /\ template' = tpl
    /\ errors' = ResetErrors(errors)
    /\ recorded' = <<>>
    /\ cfgs' = <<>>
    /\ log' = <<>>
    /\ earlier' = (earlier \/ recorded # <<>>)
    /\ prs' = <<>>
    /\ n' = count
    /\ i' = 1
    /\ raisedExc' = LoadTemplate(raised)
    /\ pc' = IF LoadTemplate(raised) = "none" THEN "loop" ELSE "raised"
    /\ UNCHANGED <<dims, fac, reg, media, cli, mcp>>

\* One iteration of the loop over config.slides, on the slide it reads.
ProcessSlide(slide_cfg) ==
    /\ pc = "loop"
    /\ i <= n
    /\ LET r == LoopBody(DefaultLayouts, slide_cfg, i)
       IN /\ errors' = errors \o r.errs
          /\ recorded' = recorded \o r.errs
          /\ prs' = prs \o r.slide
          /\ log' = Append(log, [exc |-> r.exc, step |-> r.step, errs |-> r.errs])
          /\ raisedExc' = r.propagated
          /\ pc' = IF r.propagated = "none" THEN "loop" ELSE "raised"
    /\ cfgs' = Append(cfgs, slide_cfg)
    /\ i' = i + 1
    /\ UNCHANGED <<n, template, earlier, dims, fac, reg, media, cli, mcp>>

\* The loop is over: build returns the presentation.
BuildReturn ==
    /\ pc = "loop"
    /\ i > n
    /\ pc' = "returned"
    /\ UNCHANGED <<n, i, cfgs, errors, prs, raisedExc, template, recorded, log, earlier,
                   dims, fac, reg, media, cli, mcp>>

\* get_errors(): a copy of the list.
get_errors == errors

Next ==
    \/ \E tpl \in {"ok", "missing", "corrupt"}, count \in 1..MaxSlides :
          \E raised \in Presentation(tpl) : BuildStart(tpl, raised, count)
    \/ \E slide_cfg \in SlideConfigs : ProcessSlide(slide_cfg)
    \/ BuildReturn

Spec == Init /\ [][Next]_vars

\* ------------------------------------------------ the dimension calculator
\* The builder at rest, with no call of the calculator made yet.
BuilderIdle ==
    /\ pc = "idle"
    /\ n = 0
    /\ i = 0
    /\ cfgs = <<>>
    /\ errors = <<>>
    /\ prs = <<>>
    /\ raisedExc = "none"
    /\ template = "ok"
    /\ recorded = <<>>
    /\ log = <<>>
    /\ earlier = FALSE

\* Every component at rest: no call made on any of them.
AtRest ==
    /\ BuilderIdle
    /\ dims = IdleDims
    /\ fac = IdleFac
    /\ reg = IdleReg
    /\ media = IdleMedia
    /\ cli = IdleCli
    /\ mcp = IdleMcp

InitDims == AtRest

\* A call of calculate_smart_dimensions(image_path, max_width_cm,
\* max_height_cm) on an image of img_width x img_height pixels: pillow says
\* whether Pillow was imported, readable whether Image.open returns.
CalculateDimensions(pillow, readable, img_width, img_height, max_width, max_height) ==
    /\ dims' = [phase |-> "done", pillow |-> pillow, readable |-> readable,
                img_width |-> img_width, img_height |-> img_height,
                max_width |-> max_width, max_height |-> max_height,
                result |-> calculate_smart_dimensions(pillow, readable, img_width,
                                                      img_height, max_width, max_height)]
    /\ UNCHANGED <<builderVars, fac, reg, media, cli, mcp>>

NextDims ==
    \E pillow \in BOOLEAN, readable \in BOOLEAN,
       img_width \in 0..MaxPixels, img_height \in 0..MaxPixels,
       max_width \in 0..MaxBox, max_height \in 0..MaxBox :
          CalculateDimensions(pillow, readable, img_width, img_height, max_width, max_height)

SpecDims == InitDims /\ [][NextDims]_vars

\* ------------------------------------------------------ the slide records
\* A key that a slide record (a JSON object) does not carry.
Absent == "<absent>"

\* The keys of a slide record whose values are strings or null; the value of
\* "images", a list, is kept apart: no list (the key is absent) or one.
StringKeys ==
    {"slide_type", "layout_type", "title", "notes_source", "notes_text", "layout_name",
     "audio", "subtitle", "series_number"}

GivenKeys(data) ==
    {k \in StringKeys : data[k] # Absent} \cup (IF data.images = {} THEN {} ELSE {"images"})

\* data.get(key) and data.get(key, default).
Get(data, key, default) == IF data[key] = Absent THEN default ELSE data[key]

\* ------------------------------------------------------ models.slide_types
\* The fields of the dataclasses: those of BaseSlideConfig, and the two that
\* YouTubeTitleSlideConfig adds.
BaseFields == {"layout_type", "title", "notes_source", "images", "layout_name"}

ClassFields(slide_class) ==
    IF slide_class = "YouTubeTitleSlideConfig"
    THEN BaseFields \cup {"subtitle", "series_number"}
    ELSE BaseFields

\* The fields without a default.
RequiredFields == {"layout_type", "title"}

SlideTypeOf(slide_class) ==
    IF slide_class = "YouTubeTitleSlideConfig" THEN "title_youtube" ELSE "content"

\* The generated __init__ of the dataclass: the object before __post_init__.
\* The classes define no audio field, so the object has no such attribute.
NewConfig(slide_class, kwargs) ==
    LET is_title == slide_class = "YouTubeTitleSlideConfig"
    IN [cls |-> slide_class,
        slide_type |-> SlideTypeOf(slide_class),
        layout_type |-> kwargs.layout_type,
        title |-> kwargs.title,
        notes_source |-> Get(kwargs, "notes_source", ""),
        images |-> IF kwargs.images = {} THEN <<>> ELSE CHOOSE x \in kwargs.images : TRUE,
        layout_name |-> Get(kwargs, "layout_name", NoneVal),
        subtitle |-> IF is_title THEN Get(kwargs, "subtitle", "") ELSE NoAttr,
        series_number |-> IF is_title THEN Get(kwargs, "series_number", NoneVal) ELSE NoAttr,
        audio |-> NoAttr]

\* YouTubeTitleSlideConfig.__post_init__, before the base validation.
FillLayoutName(obj) ==
    IF obj.cls = "YouTubeTitleSlideConfig" /\ ~Truthy(obj.layout_name)
    THEN [obj EXCEPT !.layout_name = REQUIRED_LAYOUT_NAME]
    ELSE obj

\* A validation that does not look at the layout name.
Validate_AnyLayoutName(obj) ==
    IF obj.cls # "YouTubeTitleSlideConfig" THEN "none"
    ELSE IF ~Truthy(obj.subtitle) THEN "ValueError"
    ELSE IF Len(obj.images) # 1 THEN "ValueError"
    ELSE "none"

\* validate(): nothing for a content slide; subtitle, one image and the
\* required layout name for a title slide.
Validate(obj) ==
    IF obj.cls # "YouTubeTitleSlideConfig" THEN "none"
    ELSE IF ~Truthy(obj.subtitle) THEN "ValueError"
    ELSE IF Len(obj.images) # 1 THEN "ValueError"
    ELSE IF obj.layout_name # REQUIRED_LAYOUT_NAME THEN "ValueError"
    ELSE "none"

\* BaseSlideConfig.__post_init__.
PostInit(obj) ==
    IF ~Truthy(obj.title) THEN "ValueError"
    ELSE IF ~Truthy(obj.layout_type) THEN "ValueError"
    ELSE Validate(obj)

\* slide_class(**kwargs): TypeError for a keyword that is no field of the
\* class or for a required field not given, else the exception of
\* __post_init__, else the object.
Construct(slide_class, kwargs) ==
    IF ~((GivenKeys(kwargs) \ {"slide_type"}) \subseteq ClassFields(slide_class))
    THEN [exc |-> "TypeError", obj |-> <<>>]
    ELSE IF ~(RequiredFields \subseteq GivenKeys(kwargs))
    THEN [exc |-> "TypeError", obj |-> <<>>]
    ELSE LET obj == FillLayoutName(NewConfig(slide_class, kwargs))
         IN IF PostInit(obj) # "none"
            THEN [exc |-> PostInit(obj), obj |-> <<>>]
            ELSE [exc |-> "none", obj |-> <<obj>>]

\* A serialisation that leaves the layout name out.
to_dict_NoLayoutName(obj) ==
    [slide_type |-> obj.slide_type, layout_type |-> obj.layout_type, title |-> obj.title,
     notes_source |-> obj.notes_source, notes_text |-> Absent, layout_name |-> Absent,
     audio |-> Absent,
     subtitle |-> IF obj.cls = "YouTubeTitleSlideConfig" THEN obj.subtitle ELSE Absent,
     series_number |-> IF obj.cls = "YouTubeTitleSlideConfig" THEN obj.series_number
                       ELSE Absent,
     images |-> {obj.images}]

\* BaseSlideConfig.to_dict, and YouTubeTitleSlideConfig.to_dict, which adds
\* subtitle and series_number: the record, with the keys it does not carry
\* Absent.
to_dict(obj) ==
    [slide_type |-> obj.slide_type, layout_type |-> obj.layout_type, title |-> obj.title,
     notes_source |-> obj.notes_source, notes_text |-> Absent,
     layout_name |-> obj.layout_name, audio |-> Absent,
     subtitle |-> IF obj.cls = "YouTubeTitleSlideConfig" THEN obj.subtitle ELSE Absent,
     series_number |-> IF obj.cls = "YouTubeTitleSlideConfig" THEN obj.series_number
                       ELSE Absent,
     images |-> {obj.images}]

\* ----------------------------------------------------- SlideConfigFactory
\* SlideConfigFactory._registry.
Registry == [content |-> "ContentSlideConfig", title_youtube |-> "YouTubeTitleSlideConfig"]

\* A factory with no default for a record without slide_type.
create_WithoutDefault(data) ==
    LET slide_type == Get(data, "slide_type", NoneVal)
    IN IF slide_type \notin DOMAIN Registry
       THEN [exc |-> "ValueError", names |-> DOMAIN Registry, obj |-> <<>>]
       ELSE LET made == Construct(Registry[slide_type], data)
            IN [exc |-> IF made.exc = "TypeError" THEN "ValueError" ELSE made.exc,
                names |-> {}, obj |-> made.obj]

\* SlideConfigFactory.create(data): the exception raised, the list of types
\* its message names, and the object returned.
create(data) ==
    LET given == Get(data, "slide_type", NoneVal)
        slide_type == IF Truthy(given) THEN given ELSE "content"
    IN IF slide_type \notin DOMAIN Registry
       THEN [exc |-> "ValueError", names |-> DOMAIN Registry, obj |-> <<>>]
       ELSE LET made == Construct(Registry[slide_type], data)
            IN [exc |-> IF made.exc = "TypeError" THEN "ValueError" ELSE made.exc,
                names |-> {}, obj |-> made.obj]

\* --------------------------------------------------- PresentationConfig
\* The loop of PresentationConfig.__post_init__ over a list of records, from
\* record k on: the first exception of the factory leaves the loop.
RECURSIVE ConvertFrom(_, _)
ConvertFrom(slides_data, k) ==
    IF k > Len(slides_data) THEN [exc |-> "none", slides |-> <<>>]
    ELSE LET one == create(slides_data[k])
         IN IF one.exc # "none" THEN [exc |-> one.exc, slides |-> <<>>]
            ELSE LET rest == ConvertFrom(slides_data, k + 1)
                 IN IF rest.exc # "none" THEN rest
                    ELSE [exc |-> "none", slides |-> one.obj \o rest.slides]

\* PresentationConfig(slides=slides_data): an empty list is refused.
PresentationConfig(slides_data) ==
    IF slides_data = <<>> THEN [exc |-> "ValueError", slides |-> <<>>]
    ELSE ConvertFrom(slides_data, 1)

\* ------------------------------------------------------------ ConfigLoader
\* ConfigLoader._parse_config: the records go to PresentationConfig as they
\* are, and a ValueError is raised again unchanged.
parse_config(slides_data) == PresentationConfig(slides_data)

\* ConfigLoader.load(json_path) on a file that is missing, is no JSON, or
\* holds the list slides_data.
load(file, slides_data) ==
    CASE file = "missing" -> [exc |-> "FileNotFoundError", slides |-> <<>>]
      [] file = "invalid" -> [exc |-> "JSONDecodeError", slides |-> <<>>]
      [] OTHER -> parse_config(slides_data)

\* ----------------------------------------------------- inputs of the factory
\* The plain content record, with the keys a record must carry.
PlainRecord ==
    [slide_type |-> Absent, layout_type |-> "single_wide", title |-> "T",
     notes_source |-> Absent, notes_text |-> Absent, layout_name |-> Absent,
     audio |-> Absent, subtitle |-> Absent, series_number |-> Absent, images |-> {}]

ImageChoices == {{}} \cup {{[m \in 1..k |-> "a.png"]} : k \in 0..MaxImages}

\* The records given to the factory.
RawRecords ==
    {[PlainRecord EXCEPT !.slide_type = st, !.title = t, !.notes_source = ns,
                         !.notes_text = nt, !.layout_name = ln, !.audio = au,
                         !.subtitle = su, !.series_number = sn, !.images = im] :
        st \in {Absent, "", "content", "title_youtube", "unknown"},
        t \in {Absent, "T", ""},
        ns \in {Absent, "inline"},
        nt \in {Absent, "Legacy notes"},
        ln \in {Absent, NoneVal, "", REQUIRED_LAYOUT_NAME, "Other"},
        au \in {Absent, "a.mp3"},
        su \in {Absent, "S"},
        sn \in {Absent, "Part 1"},
        im \in ImageChoices}

\* The records of the files given to the loader: the plain record and the
\* records that differ from it in one key.
FileRecords ==
    {PlainRecord,
     [PlainRecord EXCEPT !.notes_source = "inline"],
     [PlainRecord EXCEPT !.notes_text = "Legacy notes"],
     [PlainRecord EXCEPT !.notes_text = "Legacy notes", !.images = {<<>>}],
     [PlainRecord EXCEPT !.notes_text = "Legacy notes", !.notes_source = "inline"],
     [PlainRecord EXCEPT !.audio = "a.mp3"],
     [PlainRecord EXCEPT !.title = ""],
     [PlainRecord EXCEPT !.slide_type = "unknown"],
     [PlainRecord EXCEPT !.slide_type = "title_youtube", !.subtitle = "S",
                         !.images = {<<"a.png">>}]}

FileLists == UNION {[1..k -> FileRecords] : k \in 0..MaxSlides}

InitFactory == AtRest

\* A call of SlideConfigFactory.create on one record.
FactoryCreate(data) ==
    /\ fac.phase = "idle"
    /\ LET r == create(data)
       IN fac' = [phase |-> "created", file |-> "ok", data |-> <<data>>,
                  exc |-> r.exc, names |-> r.names, slides |-> r.obj]
    /\ UNCHANGED <<builderVars, dims, reg, media, cli, mcp>>

\* A call of ConfigLoader.load on a file.
LoaderLoad(file, slides_data) ==
    /\ fac.phase = "idle"
    /\ LET r == load(file, slides_data)
       IN fac' = [phase |-> "loaded", file |-> file, data |-> slides_data,
                  exc |-> r.exc, names |-> {}, slides |-> r.slides]
    /\ UNCHANGED <<builderVars, dims, reg, media, cli, mcp>>

\* The object just created is serialised with to_dict and the record given
\* back to the factory; slides keeps the object and, after it, the new one.
FactoryRoundTrip ==
    /\ fac.phase = "created"
    /\ fac.exc = "none"
    /\ LET record == to_dict(fac.slides[1])
           r == create(record)
       IN fac' = [phase |-> "roundtrip", file |-> "ok", data |-> <<record>>,
                  exc |-> r.exc, names |-> r.names, slides |-> fac.slides \o r.obj]
    /\ UNCHANGED <<builderVars, dims, reg, media, cli, mcp>>

\* The caller is done with the result; the next call can be made.
FactoryDone ==
    /\ fac.phase # "idle"
    /\ fac' = IdleFac
    /\ UNCHANGED <<builderVars, dims, reg, media, cli, mcp>>

NextFactory ==
    \/ \E data \in RawRecords : FactoryCreate(data)
    \/ \E file \in {"ok", "missing", "invalid"}, slides_data \in FileLists :
          LoaderLoad(file, slides_data)
    \/ FactoryRoundTrip
    \/ FactoryDone

SpecFactory == InitFactory /\ [][NextFactory]_vars

\* ------------------------------------------------ calls on a LayoutRegistry
RegistryNames == {"single_wide", "two_stack", "custom"}

\* The blueprints given to register: under each name, one of one image and
\* one of two.
RegistryBlueprints ==
    {LayoutBlueprint(name, k, [m \in 1..k |-> Placement(100 * m, 420, 2000, 1000)]) :
        name \in RegistryNames, k \in 1..MaxImages}

InitRegistry == AtRest

RegistryRegister(blueprint) ==
    /\ LET r == LayoutRegistry_register(reg.layouts, blueprint)
       IN reg' = [IdleReg EXCEPT !.layouts = r.layouts, !.before = reg.layouts,
                                 !.op = "register", !.name = blueprint.name,
                                 !.given = <<blueprint>>, !.exc = r.exc]
    /\ UNCHANGED <<builderVars, dims, fac, media, cli, mcp>>

RegistryGet(name) ==
    /\ LET r == LayoutRegistry_get(reg.layouts, name)
       IN reg' = [IdleReg EXCEPT !.layouts = reg.layouts, !.before = reg.layouts,
                                 !.op = "get", !.name = name, !.exc = r.exc,
                                 !.found = r.found, !.names = r.names]
    /\ UNCHANGED <<builderVars, dims, fac, media, cli, mcp>>

RegistryExists(name) ==
    /\ reg' = [IdleReg EXCEPT !.layouts = reg.layouts, !.before = reg.layouts,
                              !.op = "exists", !.name = name,
                              !.flag = LayoutRegistry_exists(reg.layouts, name)]
    /\ UNCHANGED <<builderVars, dims, fac, media, cli, mcp>>

RegistryListAll ==
    /\ reg' = [IdleReg EXCEPT !.layouts = reg.layouts, !.before = reg.layouts,
                              !.op = "list_all",
                              !.names = LayoutRegistry_list_all(reg.layouts)]
    /\ UNCHANGED <<builderVars, dims, fac, media, cli, mcp>>

RegistryUnregister(name) ==
    /\ LET r == LayoutRegistry_unregister(reg.layouts, name)
       IN reg' = [IdleReg EXCEPT !.layouts = r.layouts, !.before = reg.layouts,
                                 !.op = "unregister", !.name = name, !.exc = r.exc]
    /\ UNCHANGED <<builderVars, dims, fac, media, cli, mcp>>

RegistryClear ==
    /\ reg' = [IdleReg EXCEPT !.before = reg.layouts, !.op = "clear"]
    /\ UNCHANGED <<builderVars, dims, fac, media, cli, mcp>>

NextRegistry ==
    \/ \E blueprint \in RegistryBlueprints : RegistryRegister(blueprint)
    \/ \E name \in RegistryNames : RegistryGet(name)
    \/ \E name \in RegistryNames : RegistryExists(name)
    \/ RegistryListAll
    \/ \E name \in RegistryNames : RegistryUnregister(name)
    \/ RegistryClear

SpecRegistry == InitRegistry /\ [][NextRegistry]_vars

\* --------------------------------------------------- calls on a MediaPlacer
\* The timings add_movie can leave on a slide for the shape it adds: none,
\* an empty one, one for another shape, and one for the shape itself, whole
\* or short of an element.
TimingsAfterInsert(shape_id) ==
    {NoTiming, [present |-> TRUE, videos |-> <<>>]}
    \cup {[present |-> TRUE, videos |-> <<Video(spid, cTn, stCondLst, cond)>>] :
             spid \in {shape_id, shape_id + 1}, cTn \in BOOLEAN, stCondLst \in BOOLEAN,
             cond \in BOOLEAN}
    \cup {[present |-> TRUE,
           videos |-> <<Video(shape_id, FALSE, TRUE, TRUE), Video(shape_id, TRUE, TRUE, TRUE)>>]}

InitMedia == AtRest

\* One call of place_audio on a slide that holds `existing` shapes.
MediaPlaceAudio(existing, audio, autoplay, movie_raises, timing, oxml_raises) ==
    /\ Len(media.errors) < MaxErrors
    /\ LET shapes == [k \in 1..existing |->
                         [shape_id |-> k, media |-> NoneVal, mime_type |-> NoneVal,
                          left |-> 0, top |-> 0, width |-> 100, height |-> 100]]
           r == place_audio(shapes, audio, autoplay, movie_raises, timing, oxml_raises)
       IN media' = [phase |-> "placed", errors |-> media.errors \o r.errs,
                    before |-> Len(media.errors), audio |-> audio, autoplay |-> autoplay,
                    given |-> IF Exists(audio) /\ ~movie_raises THEN timing ELSE NoTiming,
                    shapes |-> r.shapes, timing |-> r.timing, returned |-> r.returned,
                    exc |-> r.exc]
    /\ UNCHANGED <<builderVars, dims, fac, reg, cli, mcp>>

\* MediaPlacer.clear_errors().
MediaClearErrors ==
    /\ media.errors # <<>>
    /\ media' = [media EXCEPT !.phase = "cleared", !.errors = <<>>, !.before = 0]
    /\ UNCHANGED <<builderVars, dims, fac, reg, cli, mcp>>

NextMedia ==
    \/ \E existing \in 0..1, audio \in {"a.mp3", "missing.mp3"}, autoplay \in BOOLEAN,
          movie_raises \in BOOLEAN, oxml_raises \in BOOLEAN :
          \E timing \in TimingsAfterInsert(existing + 1) :
             MediaPlaceAudio(existing, audio, autoplay, movie_raises, timing, oxml_raises)
    \/ MediaClearErrors

SpecMedia == InitMedia /\ [][NextMedia]_vars

\* ------------------------------------------------------------ cmd_generate
\* PresentationBuilder.build past the load of the template, as one value:
\* the loop over the slides from slide k on, with the entries appended and
\* the slides created.
RECURSIVE BuildFrom(_, _)
BuildFrom(slides, k) ==
    IF k > Len(slides) THEN [errs |-> <<>>, created |-> <<>>]
    ELSE LET one == LoopBody(DefaultLayouts, slides[k], k)
             rest == BuildFrom(slides, k + 1)
         IN [errs |-> one.errs \o rest.errs, created |-> one.slide \o rest.created]

\* The outcome of a run that ends in one of the `return 1` before the slides
\* are built: nothing is saved.
ExitFailed == [code |-> 1, saved |-> FALSE, errors |-> <<>>, created |-> <<>>]

\* The end of cmd_generate once builder.build has returned: builder.save,
\* then the return code chosen from builder.get_errors().
SaveAndExit(built, save_raises) ==
    IF save_raises
    THEN [code |-> 1, saved |-> FALSE, errors |-> built.errs, created |-> built.created]
    ELSE [code |-> IF built.errs # <<>> THEN 2 ELSE 0, saved |-> TRUE,
          errors |-> built.errs, created |-> built.created]

\* A run whose code does not look at the builder's errors.
cmd_generate_IgnoringErrors(file, slides_data, tpl, raised, save_raises) ==
    LET config == load(file, slides_data)
    IN IF file = "missing" \/ config.exc # "none" \/ tpl = "missing" THEN ExitFailed
       ELSE IF LoadTemplate(raised) # "none" \/ save_raises THEN ExitFailed
       ELSE [SaveAndExit(BuildFrom(config.slides, 1), FALSE) EXCEPT !.code = 0]

\* cmd_generate(config_path): its return code, whether builder.save wrote
\* the output file, and the builder's errors and slides at the end.
\*   file: the configuration file (ok, missing, invalid) holding slides_data;
\*   tpl, raised: the template file and what the library raises on it;
\*   save_raises: prs.save raises (builder.save turns it into IOError).
cmd_generate(file, slides_data, tpl, raised, save_raises) ==
    LET config == load(file, slides_data)
    IN IF file = "missing" THEN ExitFailed
       ELSE IF config.exc # "none" THEN ExitFailed
       ELSE IF tpl = "missing" THEN ExitFailed
       ELSE IF LoadTemplate(raised) # "none" THEN ExitFailed
       ELSE SaveAndExit(BuildFrom(config.slides, 1), save_raises)

InitCli == AtRest

\* One run of the command.
CliGenerate(file, slides_data, tpl, raised, save_raises) ==
    /\ cli.phase = "idle"
    /\ LET r == cmd_generate(file, slides_data, tpl, raised, save_raises)
       IN cli' = [phase |-> "exited", file |-> file, data |-> slides_data, tpl |-> tpl,
                  save_raises |-> save_raises, code |-> r.code, saved |-> r.saved,
                  errors |-> r.errors, created |-> r.created]
    /\ UNCHANGED <<builderVars, dims, fac, reg, media, mcp>>

\* The process has exited; the command can be run again.
CliDone ==
    /\ cli.phase = "exited"
    /\ cli' = IdleCli
    /\ UNCHANGED <<builderVars, dims, fac, reg, media, mcp>>

NextCli ==
    \/ \E file \in {"ok", "missing", "invalid"}, slides_data \in FileLists,
          tpl \in {"ok", "missing", "corrupt"}, save_raises \in BOOLEAN :
          \E raised \in Presentation(tpl) :
             CliGenerate(file, slides_data, tpl, raised, save_raises)
    \/ CliDone

SpecCli == InitCli /\ [][NextCli]_vars

\* ---------------------------------------------- MCP tool generate_presentation
\* A message of generate_presentation that reports no presentation.
McpFailed(message) ==
    [message |-> message, reported |-> 0, saved |-> FALSE, errors |-> <<>>, created |-> <<>>]

\* The end of generate_presentation once builder.build has returned the
\* presentation of a configuration of slide_count slides: builder.save, then
\* the message made from builder.get_errors() and len(config.slides).
McpSaveAndReport(built, slide_count, save_raises) ==
    IF save_raises
    THEN [message |-> "unexpected_error", reported |-> 0, saved |-> FALSE,
          errors |-> built.errs, created |-> built.created]
    ELSE [message |-> IF built.errs # <<>> THEN "created_with_errors" ELSE "created",
          reported |-> slide_count, saved |-> TRUE,
          errors |-> built.errs, created |-> built.created]

\* generate_presentation(config_path): the message returned, the number on
\* its "slides created" line, whether the file was saved, and the builder's
\* errors and slides at the end.  The arguments are those of cmd_generate.
generate_presentation(file, slides_data, tpl, raised, save_raises) ==
    LET config == load(file, slides_data)
    IN IF file = "missing" THEN McpFailed("config_not_found")
       ELSE IF config.exc # "none" THEN McpFailed("config_error")
       ELSE IF config.slides = <<>> THEN McpFailed("no_slides")
       ELSE IF tpl = "missing" THEN McpFailed("template_not_found")
       ELSE IF LoadTemplate(raised) = "FileNotFoundError" THEN McpFailed("file_not_found")
       ELSE IF LoadTemplate(raised) # "none" THEN McpFailed("config_error")
       ELSE McpSaveAndReport(BuildFrom(config.slides, 1), Len(config.slides), save_raises)

InitMcp == AtRest

\* One call of the tool.
McpGenerate(file, slides_data, tpl, raised, save_raises) ==
    /\ mcp.phase = "idle"
    /\ LET r == generate_presentation(file, slides_data, tpl, raised, save_raises)
       IN mcp' = [phase |-> "returned", file |-> file, data |-> slides_data, tpl |-> tpl,
                  save_raises |-> save_raises, message |-> r.message,
                  reported |-> r.reported, saved |-> r.saved, errors |-> r.errors,
                  created |-> r.created]
    /\ UNCHANGED <<builderVars, dims, fac, reg, media, cli>>

\* The message has been read; the tool can be called again.
McpDone ==
    /\ mcp.phase = "returned"
    /\ mcp' = IdleMcp
    /\ UNCHANGED <<builderVars, dims, fac, reg, media, cli>>

NextMcp ==
    \/ \E file \in {"ok", "missing", "invalid"}, slides_data \in FileLists,
          tpl \in {"ok", "missing", "corrupt"}, save_raises \in BOOLEAN :
          \E raised \in Presentation(tpl) :
             McpGenerate(file, slides_data, tpl, raised, save_raises)
    \/ McpDone

SpecMcp == InitMcp /\ [][NextMcp]_vars

\* ================================================================ claims
\* The positions of the slide-level entries of slide k in the error list.
SlideEntries(k) == {j \in DOMAIN errors : errors[j].kind = "slide" /\ errors[j].number = k}

\* The slides of the presentation created for configured slide k.
SlidesOf(k) == {j \in DOMAIN prs : prs[j].number = k}

\* What the configuration and the files say about a slide, whatever the
\* code does with it.
LayoutPresent(cfg) == find_layout(CurrentLayoutName(cfg))

TitleIdxOf(cfg) ==
    IF cfg.slide_type = "title_youtube" THEN PLACEHOLDER_TITLE_LAYOUT_TITLE_IDX
    ELSE PLACEHOLDER_TITLE_IDX

HasTitlePlaceholder(cfg) ==
    LayoutPresent(cfg) /\ TitleIdxOf(cfg) \in TemplateLayouts[CurrentLayoutName(cfg)]

NotesLoadable(cfg) == EndsWith(cfg.notes_source, ".md") => Exists(cfg.notes_source)

BlueprintName(cfg) ==
    IF cfg.slide_type = "title_youtube" THEN "title_youtube" ELSE cfg.layout_type

BlueprintRegistered(cfg) == BlueprintName(cfg) \in DOMAIN DefaultLayouts

SlotsOf(cfg) == Len(DefaultLayouts[BlueprintName(cfg)].placements)

MissingImages(cfg) == {m \in DOMAIN cfg.images : ~Exists(cfg.images[m])}

AudioConfigured(cfg) == cfg.audio # NoAttr /\ Truthy(cfg.audio)

\* A slide with no fault in its configuration or its files.
FaultFree(cfg) ==
    /\ HasTitlePlaceholder(cfg)
    /\ NotesLoadable(cfg)
    /\ BlueprintRegistered(cfg)
    /\ Len(cfg.images) = SlotsOf(cfg)
    /\ MissingImages(cfg) = {}
    /\ AudioConfigured(cfg) => Exists(cfg.audio)

C2_OneAbsentLayout ==
    pc = "returned" =>
       \A k \in DOMAIN cfgs :
          (~LayoutPresent(cfgs[k]) /\ \A m \in DOMAIN cfgs \ {k} : FaultFree(cfgs[m])) =>
             /\ Len(prs) = n - 1
             /\ Len(get_errors) = 1
             /\ SlideEntries(k) = {1}

\* C3: every slide fault-free with inline notes and no audio configured:
\* one slide per configured slide in order, no media, no error.
C3_CleanBuildWithoutAudio ==
    (pc = "returned"
       /\ \A k \in DOMAIN cfgs :
             /\ FaultFree(cfgs[k])
             /\ ~EndsWith(cfgs[k].notes_source, ".md")
             /\ ~AudioConfigured(cfgs[k])) =>
       /\ Len(prs) = n
       /\ \A k \in DOMAIN prs : prs[k].number = k /\ prs[k].media = <<>>
       /\ get_errors = <<>>

\* C4: a slide with as many images as slots, exactly one of which is
\* missing: the other images are inserted, one "image not found" entry is
\* appended for the missing path and no slide-level entry.
C4_OneMissingImage ==
    \A k \in DOMAIN log :
       (/\ HasTitlePlaceholder(cfgs[k])
        /\ NotesLoadable(cfgs[k])
        /\ BlueprintRegistered(cfgs[k])
        /\ Len(cfgs[k].images) = SlotsOf(cfgs[k])
        /\ Cardinality(MissingImages(cfgs[k])) = 1
        /\ ~AudioConfigured(cfgs[k])) =>
          /\ SlideEntries(k) = {}
          /\ \A m \in MissingImages(cfgs[k]) :
                log[k].errs = <<ImageNotFound(cfgs[k].images[m])>>
          /\ \E j \in SlidesOf(k) :
                Len(prs[j].pictures) = Len(cfgs[k].images) - 1

\* C5: get_errors() after a build holds the entries recorded during that
\* build and no entry of an earlier one, also after a fatal load failure.
C5_ErrorsOfLastBuildOnly ==
    /\ get_errors = recorded
    /\ pc = "raised" => get_errors = <<>>

\* A build that failed at the load step after a build that recorded entries.
C5_Witness == pc = "raised" /\ earlier /\ get_errors = <<>>

\* C6: a missing template raises FileNotFoundError and an unparsable one
\* ValueError, before any slide is read and with nothing recorded or
\* returned; in every other case build returns the presentation.
C6_FatalLoadOnly ==
    /\ template = "missing" => pc = "raised" /\ raisedExc = "FileNotFoundError"
    /\ template = "corrupt" => pc = "raised" /\ raisedExc = "ValueError"
    /\ pc = "raised" => cfgs = <<>> /\ errors = <<>> /\ prs = <<>>
    /\ template = "ok" => /\ pc \in {"idle", "loop", "returned"}
                          /\ raisedExc = "none"
                          /\ (pc = "loop" => ENABLED Next)

\* A slide that was created from a layout without the title placeholder.
TitlePlaceholderMissing(k) ==
    /\ LayoutPresent(cfgs[k])
    /\ ~HasTitlePlaceholder(cfgs[k])
    /\ SlidesOf(k) # {}

OneFixed(result) == Cardinality(result.width) + Cardinality(result.height) = 1

\* The image was read and neither its height nor the box's is zero.
Computable(d) == d.pillow /\ d.readable /\ d.img_height # 0 /\ d.max_height # 0

\* C10 as stated: for all boxes and image sizes the calculator returns a
\* pair with exactly one fixed dimension, which does not exceed its limit.
C10_AlwaysOneFixed ==
    dims.phase = "done" =>
       /\ OneFixed(dims.result)
       /\ \A v \in dims.result.width : v <= dims.max_width
       /\ \A v \in dims.result.height : v <= dims.max_height

\* C10 amended: when the image is read and neither the image height nor the
\* box height is zero, exactly one dimension is fixed and it equals its box
\* limit; in every other case both dimensions are None.
C10_OneFixedOrNone ==
    dims.phase = "done" =>
       IF Computable(dims)
       THEN /\ OneFixed(dims.result)
            /\ dims.result.width \subseteq {dims.max_width}
            /\ dims.result.height \subseteq {dims.max_height}
       ELSE dims.result = NoDimensions

\* A call on a readable image wider than its box, which fixes the width.
C10_Witness ==
    /\ dims.phase = "done"
    /\ Computable(dims)
    /\ dims.img_width > 0 /\ dims.max_width > 0
    /\ dims.result = [width |-> {dims.max_width}, height |-> {}]

\* The record without one of its keys.
Without(data, key) == [data EXCEPT ![key] = Absent]

\* The slide-level exception of the builder's _add_slide on a configuration
\* object, on a layout that has every placeholder.
BuilderReads(obj) ==
    Builder_add_slide(DefaultLayouts, IF obj.slide_type = "title_youtube"
                                      THEN REQUIRED_LAYOUT_NAME ELSE DEFAULT_LAYOUT_NAME,
                      obj, 1).exc

\* C8: a record with the optional audio key is accepted by the factory and
\* the slide config's audio holds that path; a record without it yields a
\* config whose audio is empty; the builder reads the field of every config.
C8_AudioFieldCarried ==
    (fac.phase = "created" /\ create(Without(fac.data[1], "audio")).exc = "none") =>
       /\ fac.exc = "none"
       /\ \A k \in DOMAIN fac.slides :
             /\ IF fac.data[1].audio = Absent
                THEN fac.slides[k].audio \in {NoAttr, NoneVal, ""}
                ELSE fac.slides[k].audio = fac.data[1].audio
             /\ BuilderReads(fac.slides[k]) # "AttributeError"

\* A record of the file that carries notes_text and no notes_source.
Legacy(data) == data.notes_text # Absent /\ data.notes_source = Absent

\* C9: ConfigLoader.load on a file whose slide record carries notes_text and
\* no notes_source succeeds, and the slide's notes_source is that text.
C9_LegacyNotesText ==
    (/\ fac.phase = "loaded"
     /\ fac.file = "ok"
     /\ \E k \in DOMAIN fac.data : Legacy(fac.data[k])
     /\ \A k \in DOMAIN fac.data :
           /\ fac.data[k].notes_text # Absent => Legacy(fac.data[k])
           /\ create(Without(fac.data[k], "notes_text")).exc = "none") =>
       /\ fac.exc = "none"
       /\ Len(fac.slides) = Len(fac.data)
       /\ \A k \in DOMAIN fac.slides :
             Legacy(fac.data[k]) => fac.slides[k].notes_source = fac.data[k].notes_text

\* The image of the call is wider than its box: w/h > max_width/max_height,
\* compared without division (both heights are positive).
WiderThanBox(d) == d.img_width * d.max_height > d.max_width * d.img_height

AtMost(q, limit) == q.num <= limit * q.den

Exactly(q, limit) == q.num = limit * q.den

\* Image and box of the call have positive sides, and the image was read.
AllPositive(d) ==
    /\ d.pillow /\ d.readable
    /\ d.img_width > 0 /\ d.img_height > 0 /\ d.max_width > 0 /\ d.max_height > 0

\* C12: for an image and a box with positive sides, the size rendered from
\* the calculator's result fits the box in both directions and meets one of
\* the two limits exactly.
C12_RenderedFitsBox ==
    (dims.phase = "done" /\ AllPositive(dims)) =>
       /\ OneFixed(dims.result)
       /\ LET r == Rendered(dims.result, dims.img_width, dims.img_height)
          IN /\ AtMost(r.width, dims.max_width)
             /\ AtMost(r.height, dims.max_height)
             /\ Exactly(r.width, dims.max_width) \/ Exactly(r.height, dims.max_height)

\* A call on an image taller than its box: the height is fixed and the
\* rendered width stays under the width of the box.
C12_Witness ==
    /\ dims.phase = "done"
    /\ AllPositive(dims)
    /\ dims.result.height = {dims.max_height}
    /\ ~Exactly(Rendered(dims.result, dims.img_width, dims.img_height).width, dims.max_width)

\* C13: for every valid slide config s, create(s.to_dict()) succeeds and
\* yields a slide of the same class and discriminator, equal to s in every
\* field.
C13_RoundTrip ==
    fac.phase = "roundtrip" =>
       /\ fac.exc = "none"
       /\ Len(fac.slides) = 2
       /\ fac.slides[2] = fac.slides[1]

\* The round trip of a title slide that was given a series number and no
\* layout name, and of which the layout name was filled in.
C13_Witness ==
    /\ fac.phase = "roundtrip"
    /\ Len(fac.slides) = 2
    /\ fac.slides[1].cls = "YouTubeTitleSlideConfig"
    /\ fac.slides[1].series_number = "Part 1"
    /\ fac.data[1].layout_name = REQUIRED_LAYOUT_NAME
    /\ fac.slides[2].layout_name = REQUIRED_LAYOUT_NAME

\* The record of the call asks for a title slide.
TitleRecord(data) == data.slide_type = "title_youtube"

\* The record would be accepted with the required layout name.
ValidButLayoutName(data) ==
    create([data EXCEPT !.layout_name = REQUIRED_LAYOUT_NAME]).exc = "none"

\* Every title slide that exists has the required layout name.
LiveTitleSlidesUseTitleLayout ==
    \A k \in DOMAIN fac.slides :
       fac.slides[k].cls = "YouTubeTitleSlideConfig" =>
          fac.slides[k].layout_name = REQUIRED_LAYOUT_NAME

\* C14 as stated: a title slide constructed with any explicit layout_name
\* other than 'TitleLayout' fails with ValueError and no object; with no
\* layout_name the object exists with layout_name 'TitleLayout'.
C14_OtherLayoutNameFails ==
    (fac.phase = "created" /\ TitleRecord(fac.data[1]) /\ ValidButLayoutName(fac.data[1])) =>
       /\ fac.data[1].layout_name \notin {Absent, NoneVal, REQUIRED_LAYOUT_NAME} =>
             fac.exc = "ValueError" /\ fac.slides = <<>>
       /\ fac.data[1].layout_name \in {Absent, NoneVal} =>
             fac.exc = "none" /\ Len(fac.slides) = 1
       /\ LiveTitleSlidesUseTitleLayout

\* C14 amended: a non-empty layout_name other than 'TitleLayout' fails with
\* ValueError and no object; no layout_name, None or the empty string gives
\* an object whose layout_name is 'TitleLayout'.
C14_NonEmptyOtherLayoutNameFails ==
    (fac.phase = "created" /\ TitleRecord(fac.data[1]) /\ ValidButLayoutName(fac.data[1])) =>
       /\ fac.data[1].layout_name \notin {Absent, NoneVal, "", REQUIRED_LAYOUT_NAME} =>
             fac.exc = "ValueError" /\ fac.slides = <<>>
       /\ fac.data[1].layout_name \in {Absent, NoneVal, ""} =>
             fac.exc = "none" /\ Len(fac.slides) = 1
       /\ LiveTitleSlidesUseTitleLayout

\* A title record refused for its layout name alone.
C14_Witness ==
    /\ fac.phase = "created"
    /\ TitleRecord(fac.data[1])
    /\ ValidButLayoutName(fac.data[1])
    /\ fac.data[1].layout_name = "Other"
    /\ fac.exc = "ValueError"

\* The record would be accepted as a plain content slide.
ValidAsContent(data) ==
    Construct("ContentSlideConfig", [data EXCEPT !.slide_type = Absent]).exc = "none"

\* C15: create on a record whose slide_type is not registered fails with a
\* ValueError whose message lists the registered types; on a record with no
\* slide_type it constructs a ContentSlideConfig.
C15_UnknownAndMissingType ==
    fac.phase = "created" =>
       LET data == fac.data[1]
       IN /\ (Truthy(Get(data, "slide_type", NoneVal)) /\ data.slide_type \notin DOMAIN Registry) =>
                /\ fac.exc = "ValueError"
                /\ fac.names = {"content", "title_youtube"}
                /\ fac.slides = <<>>
          /\ data.slide_type = Absent =>
                /\ ValidAsContent(data) => fac.exc = "none" /\ Len(fac.slides) = 1
                /\ \A k \in DOMAIN fac.slides : fac.slides[k].cls = "ContentSlideConfig"

\* A record of an unregistered type, refused with the list of the types.
C15_Witness ==
    /\ fac.phase = "created"
    /\ fac.data[1].slide_type = "unknown"
    /\ fac.exc = "ValueError"
    /\ fac.names = {"content", "title_youtube"}

\* C16: register of a blueprint whose name is already registered fails with
\* ValueError and leaves the registry as it was: get returns the blueprint
\* registered before and list_all() is what it was before the call.
C16_DuplicateRegisterRefused ==
    (reg.op = "register" /\ Registered(reg.before, reg.name)) =>
       /\ reg.exc = "ValueError"
       /\ LayoutRegistry_get(reg.layouts, reg.name) = LayoutRegistry_get(reg.before, reg.name)
       /\ LayoutRegistry_list_all(reg.layouts) = LayoutRegistry_list_all(reg.before)
       /\ reg.layouts = reg.before

\* A blueprint refused under a name that holds a different blueprint.
C16_Witness ==
    /\ reg.op = "register"
    /\ reg.exc = "ValueError"
    /\ Len(reg.layouts) = 2
    /\ LayoutRegistry_get(reg.layouts, reg.name).found # reg.given

\* The shapes of the slide that carry the audio of the call.
MediaShapes == {k \in DOMAIN media.shapes : media.shapes[k].media = media.audio}

\* The call inserted the audio with autoplay asked for, and the slide had
\* no timing element after the insertion.
InsertedWithoutTiming ==
    /\ media.phase = "placed"
    /\ Exists(media.audio)
    /\ media.autoplay
    /\ MediaShapes # {}
    /\ ~media.given.present

\* C17: place_audio with autoplay, for an existing file and a slide without
\* timing: the media shape is on the slide, an entry is appended to the
\* placer's errors, and no exception reaches the caller.
C17_NoTimingIsRecorded ==
    InsertedWithoutTiming =>
       /\ Cardinality(MediaShapes) = 1
       /\ Len(media.errors) = media.before + 1
       /\ media.errors[Len(media.errors)].kind \in {"no_timing", "autoplay"}
       /\ media.exc = "none"
       /\ media.returned

\* Such a call, recorded as "no timing element".
C17_Witness ==
    /\ InsertedWithoutTiming
    /\ media.errors[Len(media.errors)].kind = "no_timing"
    /\ media.returned

\* C18: when autoplay is asked for and the slide has no timing tree, the
\* placer builds a minimal one for the inserted shape: after place_audio
\* the slide has a timing entry for that shape that starts at once.
C18_TimingTreeConstructed ==
    InsertedWithoutTiming =>
       /\ media.timing.present
       /\ \E k \in DOMAIN media.timing.videos, j \in MediaShapes :
             /\ media.timing.videos[k].spid = media.shapes[j].shape_id
             /\ media.timing.videos[k].delay = "0"

\* C19: cmd_generate returns 0 only when the presentation was saved and no
\* error was recorded, 2 only when it was saved and an error was recorded,
\* and 1 only when no output file was written.
C19_ReturnCodes ==
    cli.phase = "exited" =>
       /\ cli.code \in {0, 1, 2}
       /\ cli.code = 0 => cli.saved /\ cli.errors = <<>>
       /\ cli.code = 2 => cli.saved /\ cli.errors # <<>>
       /\ cli.code = 1 => ~cli.saved

\* A run that saved a presentation after a slide failed, and returned 2.
C19_Witness ==
    /\ cli.phase = "exited"
    /\ cli.code = 2
    /\ cli.saved
    /\ cli.errors # <<>>

\* The smaller of the number of images and the number of slots.
PairedCount(images, placements) ==
    IF Len(images) < Len(placements) THEN Len(images) ELSE Len(placements)

\* Pictures and entries come from the images paired with a slot, each image
\* at the offsets of the slot of its own index, and every paired image
\* gives one picture or one entry.
PairedBySlot(images, placements, pictures, errs) ==
    /\ Len(pictures) + Len(errs) = PairedCount(images, placements)
    /\ \A j \in DOMAIN pictures :
          \E q \in 1..PairedCount(images, placements) :
             /\ placements[q].left = pictures[j].left
             /\ placements[q].top = pictures[j].top
             /\ images[q] = pictures[j].path
    /\ \A j \in DOMAIN errs :
          \E q \in 1..PairedCount(images, placements) : images[q] = errs[j].path

\* The entries about images among the entries of slide k.
ImageEntries(k) ==
    SelectSeq(log[k].errs,
              LAMBDA e : e.kind \in {"image_not_found", "webp_conversion", "image_add"})

\* Slide k went through the image step with a registered blueprint.
ImagesPlaced(k) ==
    /\ log[k].exc = "none"
    /\ cfgs[k].images # <<>>
    /\ SlidesOf(k) # {}

\* C20: image i goes to slot i only, at most min(m, n) pictures are
\* inserted, and no image from the first surplus one on is resolved or
\* inserted, in the builder and in the Image Placer alike.
C20_PositionalPairing ==
    \A k \in DOMAIN log :
       /\ ImagesPlaced(k) =>
             \A j \in SlidesOf(k) :
                PairedBySlot(cfgs[k].images, DefaultLayouts[BlueprintName(cfgs[k])].placements,
                             prs[j].pictures, ImageEntries(k))
       /\ (cfgs[k].images # <<>> /\ BlueprintRegistered(cfgs[k])) =>
             LET r == ImagePlacer_place_images(DefaultLayouts, cfgs[k])
             IN PairedBySlot(cfgs[k].images, DefaultLayouts[BlueprintName(cfgs[k])].placements,
                             r.pictures, r.errs)

\* A slide with more images than its blueprint has slots, on which as many
\* pictures as slots were inserted.
C20_Witness ==
    \E k \in DOMAIN log :
       /\ ImagesPlaced(k)
       /\ Len(cfgs[k].images) > SlotsOf(cfgs[k])
       /\ \E j \in SlidesOf(k) : Len(prs[j].pictures) = SlotsOf(cfgs[k])

\* The number of images the blueprint of the slide requires.
RequiredImages(cfg) == DefaultLayouts[BlueprintName(cfg)].required_images

\* Slide k went through the image step with a number of images that is not
\* the number its blueprint requires.
CountMismatch(k) ==
    /\ ImagesPlaced(k)
    /\ Len(cfgs[k].images) # RequiredImages(cfgs[k])

\* The entries of a list that are about images paired with a slot, or about
\* the audio.
PerFileEntries(errs) ==
    SelectSeq(errs, LAMBDA e : e.kind \in {"image_not_found", "webp_conversion",
                                           "image_add", "audio_not_found"})

\* C21 as stated: an image-count mismatch leaves an entry of its own in the
\* error list retrievable after the call, and placement proceeds with the
\* images that can be paired with slots.
C21_MismatchRecorded ==
    \A k \in DOMAIN log :
       CountMismatch(k) =>
          /\ \E j \in DOMAIN get_errors :
                get_errors[j].kind \notin {"slide", "image_not_found", "webp_conversion",
                                          "image_add", "audio_not_found"}
          /\ \A j \in SlidesOf(k) :
                Len(prs[j].pictures) + Len(ImageEntries(k))
                   = PairedCount(cfgs[k].images,
                                 DefaultLayouts[BlueprintName(cfgs[k])].placements)

\* C21 amended: an image-count mismatch is written to the log only: the
\* slide appends no entry but those of its paired images and of its audio,
\* none at slide level, in the builder and in the Image Placer alike, and
\* placement proceeds with the images that can be paired with slots.
C21_MismatchOnlyLogged ==
    \A k \in DOMAIN log :
       CountMismatch(k) =>
          /\ log[k].errs = PerFileEntries(log[k].errs)
          /\ SlideEntries(k) = {}
          /\ MissingImages(cfgs[k]) = {} => ImageEntries(k) = <<>>
          /\ LET r == ImagePlacer_place_images(DefaultLayouts, cfgs[k])
             IN r.exc = "none" /\ r.errs = PerFileEntries(r.errs)
          /\ \A j \in SlidesOf(k) :
                Len(prs[j].pictures) + Len(ImageEntries(k))
                   = PairedCount(cfgs[k].images,
                                 DefaultLayouts[BlueprintName(cfgs[k])].placements)

\* A slide with fewer images than its blueprint requires, all of them
\* inserted, and an error list that stayed empty.
C21_Witness ==
    /\ pc = "returned"
    /\ get_errors = <<>>
    /\ \E k \in DOMAIN log :
          /\ CountMismatch(k)
          /\ Len(cfgs[k].images) < RequiredImages(cfgs[k])
          /\ \E j \in SlidesOf(k) : Len(prs[j].pictures) = Len(cfgs[k].images)

\* The slide has an image and names a blueprint that is not registered.
UnregisteredBlueprint(cfg) == cfg.images # <<>> /\ ~BlueprintRegistered(cfg)

\* The slide reaches the image step: its object carries the attributes
\* _add_slide reads, its layout has the title placeholder, its notes load.
ReachesImages(cfg) ==
    cfg.audio # NoAttr /\ HasTitlePlaceholder(cfg) /\ NotesLoadable(cfg)

\* C22: with an image and an unregistered layout_type, place_images raises
\* KeyError, inserts no picture and appends no image entry; in build that
\* slide alone is abandoned, with exactly one slide-level entry, and every
\* later slide is still processed.
C22_UnregisteredBlueprintAbortsSlide ==
    /\ pc \in {"loop", "returned"} => Len(log) = IF pc = "returned" THEN n ELSE i - 1
    /\ \A k \in DOMAIN log :
          UnregisteredBlueprint(cfgs[k]) =>
             /\ LET r == ImagePlacer_place_images(DefaultLayouts, cfgs[k])
                IN r.exc = "KeyError" /\ r.pictures = <<>> /\ r.errs = <<>>
             /\ LET b == Builder_place_images(DefaultLayouts, cfgs[k])
                IN b.exc = "KeyError" /\ b.pictures = <<>> /\ b.errs = <<>>
             /\ Cardinality(SlideEntries(k)) = 1
             /\ log[k].errs = <<SlideError(k, cfgs[k].title, log[k].exc)>>
             /\ \A j \in SlidesOf(k) : prs[j].pictures = <<>> /\ prs[j].media = <<>>
             /\ ReachesImages(cfgs[k]) => log[k].exc = "KeyError" /\ log[k].step = "images"
             /\ raisedExc = "none"

\* A slide abandoned at the image step for its unregistered blueprint,
\* followed by a slide that was built whole.
C22_Witness ==
    /\ pc = "returned"
    /\ \E k \in DOMAIN log, m \in DOMAIN log :
          /\ k < m
          /\ UnregisteredBlueprint(cfgs[k]) /\ log[k].step = "images"
          /\ log[k].exc = "KeyError"
          /\ FaultFree(cfgs[m]) /\ log[m].exc = "none" /\ SlidesOf(m) # {}

\* The result of the Dimension Calculator for an image paired with a slot.
DimensionsFor(path, placement) ==
    calculate_smart_dimensions(PillowInstalled, Readable(path), ImageSize(path).w,
                               ImageSize(path).h, placement.max_width, placement.max_height)

\* The images of slide k that are paired with a slot, exist, and for which
\* the calculator yields the "no dimensions" signal.
WithoutDimensions(k) ==
    LET placements == DefaultLayouts[BlueprintName(cfgs[k])].placements
    IN {q \in 1..PairedCount(cfgs[k].images, placements) :
           /\ Exists(cfgs[k].images[q])
           /\ ~(EndsWith(cfgs[k].images[q], ".webp") /\ ConvertFails(cfgs[k].images[q]))
           /\ DimensionsFor(cfgs[k].images[q], placements[q]) = NoDimensions}

\* C23: an image for which the calculator yields "no dimensions" is
\* skipped: no picture is inserted at its slot, and the later images of the
\* slide are placed.
C23_NoDimensionsSkipsImage ==
    \A k \in DOMAIN log :
       ImagesPlaced(k) =>
          \A q \in WithoutDimensions(k), j \in SlidesOf(k) :
             LET placements == DefaultLayouts[BlueprintName(cfgs[k])].placements
             IN /\ \A p \in DOMAIN prs[j].pictures :
                      ~(/\ prs[j].pictures[p].left = placements[q].left
                        /\ prs[j].pictures[p].top = placements[q].top)
                /\ \A r \in (q + 1)..PairedCount(cfgs[k].images, placements) :
                      (Exists(cfgs[k].images[r]) /\ r \notin WithoutDimensions(k)) =>
                         \E p \in DOMAIN prs[j].pictures :
                            prs[j].pictures[p].left = placements[r].left
                            /\ prs[j].pictures[p].top = placements[r].top

\* The timing of a slide after PresentationBuilder._place_audio, where the
\* add_movie call left the timing `timing`: _place_audio ends with the
\* add_movie call and edits no timing.
Builder_timing_after_audio(timing) == timing

\* The entries of a sequence, as a set.
EntriesOf(errs) == {errs[j] : j \in DOMAIN errs}

\* C24: for every slide with (existing) audio configured that build has
\* built, the media object is embedded on it and the slide is as the Media
\* Placer's place_audio with autoplay leaves it: the timing patched for the
\* object, or the entry of the failed patch in the builder's error list.
C24_AudioThroughMediaPlacer ==
    \A k \in DOMAIN log :
       (AudioConfigured(cfgs[k]) /\ Exists(cfgs[k].audio) /\ log[k].exc = "none") =>
          \A j \in SlidesOf(k) :
             /\ prs[j].media = <<cfgs[k].audio>>
             /\ \A timing \in TimingsAfterInsert(1) :
                   LET contract == place_audio(<<>>, cfgs[k].audio, TRUE, FALSE, timing, FALSE)
                   IN /\ Builder_timing_after_audio(timing) = contract.timing
                      /\ EntriesOf(contract.errs) \subseteq EntriesOf(get_errors)

\* C25: the "slides created" number of the message of generate_presentation
\* is the number of slides the build created in the saved presentation,
\* also when configured slides failed and errors are reported.
C25_ReportedIsCreated ==
    (mcp.phase = "returned" /\ mcp.saved) =>
       /\ mcp.message \in {"created", "created_with_errors"}
       /\ mcp.reported = Len(mcp.created)

\* Registries of several contents: empty, partial, and the default one.
SomeRegistries ==
    {[name \in S |-> DefaultLayouts[name]] :
        S \in {{}, {"single_wide"}, {"two_stack", "title_youtube"}, DOMAIN DefaultLayouts}}

\* What a placement of images leaves to an observer: the pictures, the
\* entries and the exception.
Observed(r) == [pictures |-> r.pictures, errs |-> r.errs, exc |-> r.exc]

\* C26: on the same slide config, registry and files, ImagePlacer's
\* place_images and the builder's _place_images insert the same pictures in
\* the same order, append the same entries in the same order and raise
\* KeyError in the same cases; the slides build creates carry them.
C26_PlacersEquivalent ==
    \A k \in DOMAIN log :
       /\ \A layouts \in SomeRegistries :
             Observed(ImagePlacer_place_images(layouts, cfgs[k]))
                = Observed(Builder_place_images(layouts, cfgs[k]))
       /\ ImagesPlaced(k) =>
             \A j \in SlidesOf(k) :
                /\ prs[j].pictures = ImagePlacer_place_images(DefaultLayouts, cfgs[k]).pictures
                /\ ImageEntries(k) = ImagePlacer_place_images(DefaultLayouts, cfgs[k]).errs

\* A slide built from a WebP file that cannot be converted and one that
\* can: one entry and one picture, the same from both placers.
C26_Witness ==
    \E k \in DOMAIN log :
       /\ ImagesPlaced(k)
       /\ cfgs[k].images = <<"bad.webp", "b.webp">>
       /\ LET r == ImagePlacer_place_images(DefaultLayouts, cfgs[k])
          IN /\ r.errs = <<WebpError("bad.webp")>>
             /\ Len(r.pictures) = 1
             /\ \E j \in SlidesOf(k) : prs[j].pictures = r.pictures

\* The slide's processing fails after its slide instance was created from
\* the layout, for one of: no title placeholder, notes file not found,
\* unregistered blueprint.
FailsAfterCreation(cfg) ==
    /\ LayoutPresent(cfg)
    /\ ~HasTitlePlaceholder(cfg) \/ ~NotesLoadable(cfg) \/ UnregisteredBlueprint(cfg)

\* C27: a slide whose processing fails after its creation stays in the
\* presentation, with one slide-level entry recorded for it; only a slide
\* whose layout is not found leaves no slide behind.
C27_FailedSlidesStay ==
    \A k \in DOMAIN log :
       /\ FailsAfterCreation(cfgs[k]) =>
             /\ Cardinality(SlidesOf(k)) = 1
             /\ Cardinality(SlideEntries(k)) = 1
       /\ SlidesOf(k) = {} => ~LayoutPresent(cfgs[k])

\* The processing of configured slide k went past prs.slides.add_slide.
Created(k) == log[k].step \notin {"layout", "enter"}

\* The position in config.slides of the slide that is the j-th of the
\* presentation: the j-th configured slide that was created.
PositionOf(j) ==
    CHOOSE k \in DOMAIN log :
       Created(k) /\ Cardinality({m \in 1..k : Created(m)}) = j

\* The index of the number placeholder for the slide's type.
SlideNumIdxOf(cfg) ==
    IF cfg.slide_type = "title_youtube" THEN PLACEHOLDER_TITLE_LAYOUT_SLIDE_NUM_IDX
    ELSE PLACEHOLDER_SLIDE_NUM_IDX

\* C28: the ordinal written into a created slide's number placeholder is
\* the slide's 1-based position in config.slides, whatever failed before
\* it: the ordinals increase strictly in presentation order, may have gaps,
\* and are not the count of the slides created.
C28_OrdinalIsConfigPosition ==
    /\ Len(prs) = Cardinality({k \in DOMAIN log : Created(k)})
    /\ \A j \in DOMAIN prs :
          LET k == PositionOf(j)
          IN /\ prs[j].ordinal \in {0, k}
             /\ (log[k].step # "title"
                   /\ SlideNumIdxOf(cfgs[k]) \in TemplateLayouts[CurrentLayoutName(cfgs[k])])
                => prs[j].ordinal = k
    /\ \A j1 \in DOMAIN prs, j2 \in DOMAIN prs :
          (j1 < j2 /\ prs[j1].ordinal # 0 /\ prs[j2].ordinal # 0) =>
             prs[j1].ordinal < prs[j2].ordinal

\* A presentation whose first slide carries the ordinal 2: the slide
\* configured first failed before its creation.
C28_Witness ==
    /\ pc = "returned"
    /\ Len(prs) = 1
    /\ prs[1].ordinal = 2
    /\ ~LayoutPresent(cfgs[1])

\* C29: one slide is processed in the order title, subtitle, number, notes,
\* images, audio: a slide whose notes cannot be loaded gets no picture, no
\* media and no entry of an image or of the audio, while what precedes the
\* notes is written; pictures and media are only on slides with notes.
C29_StepsInOrder ==
    \A k \in DOMAIN log :
       /\ ~NotesLoadable(cfgs[k]) =>
             /\ log[k].exc # "none"
             /\ PerFileEntries(log[k].errs) = <<>>
             /\ \A j \in SlidesOf(k) : prs[j].pictures = <<>> /\ prs[j].media = <<>>
       /\ log[k].step = "notes" =>
             \A j \in SlidesOf(k) :
                /\ prs[j].title = cfgs[k].title
                /\ prs[j].notes = <<>>
                /\ cfgs[k].slide_type = "title_youtube" => prs[j].subtitle = cfgs[k].subtitle
                /\ SlideNumIdxOf(cfgs[k]) \in TemplateLayouts[CurrentLayoutName(cfgs[k])]
                      => prs[j].ordinal = k
       /\ \A j \in SlidesOf(k) :
             (prs[j].pictures # <<>> \/ prs[j].media # <<>>) =>
                prs[j].notes # <<>> /\ prs[j].title = cfgs[k].title
       /\ log[k].step = "title" =>
             \A j \in SlidesOf(k) : prs[j] = NewSlide(CurrentLayoutName(cfgs[k]), k)

\* A slide with an existing image and an existing audio file whose notes
\* file is missing: it stays with its title and number and nothing else.
C29_Witness ==
    \E k \in DOMAIN log :
       /\ log[k].step = "notes"
       /\ log[k].exc = "FileNotFoundError"
       /\ AudioConfigured(cfgs[k]) /\ Exists(cfgs[k].audio)
       /\ MissingImages(cfgs[k]) = {} /\ cfgs[k].images # <<>>
       /\ \E j \in SlidesOf(k) :
             /\ prs[j].ordinal = k
             /\ prs[j].pictures = <<>> /\ prs[j].media = <<>>

\* The names a query can be made with: those ever registered and one that
\* never is.
QueryNames == RegistryNames \cup {"never_registered"}

\* The names list_all() returns, as a set.
ListedNames(layouts) ==
    {LayoutRegistry_list_all(layouts)[k] : k \in DOMAIN LayoutRegistry_list_all(layouts)}

\* C30: after any sequence of register, unregister and clear calls,
\* exists(n), n in list_all() and success of get(n) agree; list_all() has
\* no duplicate; get(n) returns the blueprint registered under n, whose
\* name is n; a failed register or unregister leaves the mapping unchanged.
C30_QueriesAgree ==
    /\ \A name \in QueryNames :
          /\ LayoutRegistry_exists(reg.layouts, name) <=> name \in ListedNames(reg.layouts)
          /\ LayoutRegistry_exists(reg.layouts, name)
                <=> LayoutRegistry_get(reg.layouts, name).exc = "none"
          /\ \A k \in DOMAIN LayoutRegistry_get(reg.layouts, name).found :
                LayoutRegistry_get(reg.layouts, name).found[k].name = name
    /\ \A a \in DOMAIN LayoutRegistry_list_all(reg.layouts),
          b \in DOMAIN LayoutRegistry_list_all(reg.layouts) :
          a # b => LayoutRegistry_list_all(reg.layouts)[a] # LayoutRegistry_list_all(reg.layouts)[b]
    /\ (reg.op = "register" /\ reg.exc = "none") =>
          LayoutRegistry_get(reg.layouts, reg.name).found = reg.given
    /\ (reg.op = "unregister" /\ reg.exc = "none") =>
          ~LayoutRegistry_exists(reg.layouts, reg.name)
    /\ (reg.op \in {"register", "unregister"} /\ reg.exc = "none") =>
          \A name \in QueryNames \ {reg.name} :
             LayoutRegistry_get(reg.layouts, name).found
                = LayoutRegistry_get(reg.before, name).found
    /\ (reg.op \in {"register", "unregister"} /\ reg.exc # "none") =>
          reg.layouts = reg.before
    /\ reg.op \in {"get", "exists", "list_all"} => reg.layouts = reg.before
    /\ reg.op = "clear" => LayoutRegistry_list_all(reg.layouts) = <<>>

\* An unregister of a name that is not registered, refused on a registry
\* that holds two blueprints and keeps them.
C30_Witness ==
    /\ reg.op = "unregister"
    /\ reg.exc = "KeyError"
    /\ Len(reg.before) = 2
    /\ reg.layouts = reg.before

====
